---- MODULE Spec2Model ----
(***************************************************************************)
(* Model of the weather-fetch orchestration of climate_try:                *)
(* fetchWeatherWithAI (src/services/geminiService.ts:22-127), an async     *)
(* function that calls the Gemini oracle, parses the reply, assembles a    *)
(* snapshot and, on failure, downgrades to non-search mode or backs off    *)
(* and retries by calling itself.                                          *)
(*                                                                         *)
(* One invocation chain (the outermost call and the recursive calls it     *)
(* makes) is a small state machine: pc[c] is the position of the           *)
(* innermost frame, useSearch[c] / retries[c] / coords[c] / cityName[c]    *)
(* are that frame's parameters.  log[c] records the observable events of   *)
(* the chain in order.                                                     *)
(***************************************************************************)
EXTENDS Integers, Sequences, FiniteSets, TLC

----------------------------------------------------------------------------
(* Bounds of the model *)

\* largest retry budget a caller passes
MaxRetries == 2
\* longest groundingChunks array in an oracle reply
MaxChunks == 1
\* longest forecast array in an oracle reply
MaxForecast == 2
\* forecast dates are day ordinals 1..MaxDay (a YYYY-MM-DD string orders as its day)
MaxDay == 2

\* longest reply text of the connection probe, in characters
MaxProbeLen == 4
\* most fragments an error message at the presentation boundary is made of
MaxFragments == 3
\* most blanks before and after the text of a search query
MaxPad == 1

----------------------------------------------------------------------------
(* Values *)

\* JavaScript undefined, where a string is expected
Undefined == "<undefined>"

\* JavaScript truthiness of a string-or-undefined value
Truthy(v) == v # Undefined /\ v # ""

\* invocation chains; Spec runs one, SpecConc runs both
Chains == {1, 2}

\* process.env.API_KEY: unset, empty, or a key
ApiKeys == {Undefined, "", "AIzaKEY"}

Coordinates == {[lat |-> 25, lng |-> 121]}

CityNames == {Undefined, "", "Taipei"}

\* values of new Date().toLocaleTimeString('zh-TW')
Times == {"10:00:00", "10:00:01"}

\* messages of the errors ai.models.generateContent rejects with
OracleErrors == {"429 RESOURCE_EXHAUSTED", "403 PERMISSION_DENIED",
                 "404 NOT_FOUND", "fetch failed"}

\* the characters of "API_KEY_MISSING"
KeyMissingChars == <<"A", "P", "I", "_", "K", "E", "Y", "_", "M", "I", "S", "S", "I", "N", "G">>

\* err.message of an error of OracleErrors, as characters
OracleErrorMessage(e) ==
    CASE e = "429 RESOURCE_EXHAUSTED" -> <<"4", "2", "9", " ", "R", "E", "S", "O", "U", "R", "C", "E", "_", "E", "X", "H", "A", "U", "S", "T", "E", "D">>
      [] e = "403 PERMISSION_DENIED" -> <<"4", "0", "3", " ", "P", "E", "R", "M", "I", "S", "S", "I", "O", "N", "_", "D", "E", "N", "I", "E", "D">>
      [] e = "404 NOT_FOUND" -> <<"4", "0", "4", " ", "N", "O", "T", "_", "F", "O", "U", "N", "D">>
      [] e = "fetch failed" -> <<"f", "e", "t", "c", "h", " ", "f", "a", "i", "l", "e", "d">>

RECURSIVE SeqsUpTo(_, _)
\* all sequences over S of length at most n
SeqsUpTo(S, n) ==
    IF n = 0 THEN {<< >>}
    ELSE LET shorter == SeqsUpTo(S, n - 1)
         IN  shorter \cup {Append(s, x) : s \in {t \in shorter : Len(t) = n - 1}, x \in S}

----------------------------------------------------------------------------
(* Oracle replies *)

\* a grounding chunk: web absent, or web with optional title / uri
Chunks ==
    { [hasWeb |-> FALSE, title |-> Undefined, uri |-> Undefined],
      [hasWeb |-> TRUE,  title |-> "CWA",     uri |-> "https://cwa.gov.tw"],
      [hasWeb |-> TRUE,  title |-> "",        uri |-> Undefined] }

\* response.candidates?.[0]?.groundingMetadata?.groundingChunks:
\* undefined somewhere along the chain, or an array of chunks
Groundings ==
    { [present |-> FALSE, chunks |-> << >>] } \cup
    { [present |-> TRUE, chunks |-> cs] : cs \in SeqsUpTo(Chunks, MaxChunks) }

\* a forecast entry (DailyForecast)
DailyForecast(d) == [date |-> d, high |-> 30, low |-> 22, condition |-> "sunny"]

Forecasts == { [i \in 1..Len(ds) |-> DailyForecast(ds[i])] : ds \in SeqsUpTo(1..MaxDay, MaxForecast) }

CurrentWeather ==
    [temp |-> 28, condition |-> "sunny", humidity |-> 60,
     windSpeed |-> 10, feelsLike |-> 30, uvIndex |-> 8]

\* the keys the response schema requires
SchemaKeys == {"locationName", "current", "forecast", "aiInsight",
               "clothingAdvice", "activityAdvice"}

\* the keys the orchestrator sets itself
OwnKeys == {"lastUpdated", "sources", "isRealtime"}

\* a JSON object matching the schema, as a map from key to value
WellFormedDoc(fc) ==
    [k \in SchemaKeys |->
        CASE k = "locationName" -> "Taipei City"
          [] k = "current" -> CurrentWeather
          [] k = "forecast" -> fc
          [] k = "aiInsight" -> "insight"
          [] k = "clothingAdvice" -> "clothing"
          [] k = "activityAdvice" -> "activity"]

\* the same object carrying keys named like the orchestrator's own
DocWithOwnKeys(fc) ==
    [k \in SchemaKeys \cup OwnKeys |->
        CASE k = "lastUpdated" -> "00:00:00"
          [] k = "sources" -> << [title |-> "forged", uri |-> "forged"] >>
          [] k = "isRealtime" -> TRUE
          [] OTHER -> WellFormedDoc(fc)[k]]

\* JSON null (or {}): an object spread of it contributes no key
NullDoc == << >>

JsonDocs ==
    {NullDoc} \cup {WellFormedDoc(fc) : fc \in Forecasts}
              \cup {DocWithOwnKeys(fc) : fc \in Forecasts}

\* texts that are not JSON (each starts with a character no JSON value
\* starts with): "x", "API_KEY_MISSING", "x429"
NonJsonTexts == { <<"x">>, KeyMissingChars, <<"x", "4", "2", "9">> }

\* response.text: undefined, "", text that is not JSON (raw holds its
\* characters), or the JSON text of a document
Texts ==
    { [defined |-> FALSE, empty |-> TRUE,  json |-> FALSE, doc |-> NullDoc, raw |-> << >>],
      [defined |-> TRUE,  empty |-> TRUE,  json |-> FALSE, doc |-> NullDoc, raw |-> << >>] } \cup
    { [defined |-> TRUE,  empty |-> FALSE, json |-> FALSE, doc |-> NullDoc, raw |-> t] : t \in NonJsonTexts } \cup
    { [defined |-> TRUE,  empty |-> FALSE, json |-> TRUE,  doc |-> d, raw |-> << >>] : d \in JsonDocs }

NoText == [defined |-> FALSE, empty |-> TRUE, json |-> FALSE, doc |-> NullDoc, raw |-> << >>]

NoGrounding == [present |-> FALSE, chunks |-> << >>]

\* what awaiting ai.models.generateContent yields: a rejection (error is
\* the error thrown, message its err.message) or a response
Replies ==
    { [threw |-> TRUE, error |-> e, message |-> OracleErrorMessage(e),
       text |-> NoText, grounding |-> NoGrounding] : e \in OracleErrors } \cup
    { [threw |-> FALSE, error |-> "", message |-> << >>, text |-> t, grounding |-> g] :
        t \in Texts, g \in Groundings }

----------------------------------------------------------------------------
(* Pure parts of fetchWeatherWithAI *)

\* a credential check that only notices an unset variable
ApiKeyAbsent_OnlyUnset(key) == key = Undefined

\* if (!apiKey) ...
ApiKeyAbsent(key) == ~Truthy(key)

\* a parse that swallows the SyntaxError and yields an empty object
\* the message of the SyntaxError of JSON.parse for a text whose first
\* character starts no JSON value: Unexpected token 'x', "x..." is not valid JSON
SyntaxErrorMessage(raw) ==
    <<"U", "n", "e", "x", "p", "e", "c", "t", "e", "d", " ", "t", "o", "k", "e", "n", " ", "'">> \o
    (IF raw = << >> THEN << >> ELSE <<raw[1]>>) \o <<"'", ",", " ", "\"">> \o raw \o
    <<"\"", " ", "i", "s", " ", "n", "o", "t", " ", "v", "a", "l", "i", "d", " ", "J", "S", "O", "N">>

JSON_parse_Lenient(text) == [ok |-> TRUE, value |-> text.doc, error |-> "", message |-> << >>]

\* JSON.parse(text): the document, or a SyntaxError whose message quotes the text
JSON_parse(text) ==
    IF text.json THEN [ok |-> TRUE, value |-> text.doc, error |-> "", message |-> << >>]
    ELSE [ok |-> FALSE, value |-> NullDoc, error |-> "SyntaxError",
          message |-> SyntaxErrorMessage(text.raw)]

\* defaults applied with ?? instead of ||, so that an empty string is kept
SourceOf_Nullish(chunk) ==
    [title |-> IF chunk.hasWeb /\ chunk.title # Undefined THEN chunk.title ELSE "weather source",
     uri   |-> IF chunk.hasWeb /\ chunk.uri # Undefined THEN chunk.uri ELSE "#"]

\* chunk.web?.title || default, chunk.web?.uri || '#'
\* ("weather source" stands for the placeholder title literal of line 103)
SourceOf(chunk) ==
    [title |-> IF chunk.hasWeb /\ Truthy(chunk.title) THEN chunk.title ELSE "weather source",
     uri   |-> IF chunk.hasWeb /\ Truthy(chunk.uri) THEN chunk.uri ELSE "#"]

\* groundingChunks?.map(...) || []
ExtractSources(grounding) ==
    IF grounding.present
    THEN [i \in 1..Len(grounding.chunks) |-> SourceOf(grounding.chunks[i])]
    ELSE << >>

\* a realtime flag that only looks at the mode
IsRealtime_ModeOnly(search, sources) == search

\* a realtime flag that only looks at the sources
IsRealtime_SourcesOnly(search, sources) == Len(sources) > 0

\* useSearch && sources.length > 0
IsRealtime(search, sources) == search /\ Len(sources) > 0

\* an object literal with the spread written last, so that the reply's keys win
AssembleSnapshot_SpreadLast(parsedData, now, sources, search) ==
    [k \in (DOMAIN parsedData) \cup OwnKeys |->
        IF k \in DOMAIN parsedData THEN parsedData[k]
        ELSE CASE k = "lastUpdated" -> now
               [] k = "sources" -> sources
               [] OTHER -> IsRealtime(search, sources)]

\* an assembly that lists the forecast latest entry first
AssembleSnapshot_ReverseForecast(parsedData, now, sources, search) ==
    [k \in (DOMAIN parsedData) \cup OwnKeys |->
        CASE k = "lastUpdated" -> now
          [] k = "sources" -> sources
          [] k = "isRealtime" -> IsRealtime(search, sources)
          [] k = "forecast" ->
                [i \in 1..Len(parsedData[k]) |-> parsedData[k][Len(parsedData[k]) + 1 - i]]
          [] OTHER -> parsedData[k]]

\* { ...parsedData, lastUpdated, sources, isRealtime }: later keys win
AssembleSnapshot(parsedData, now, sources, search) ==
    [k \in (DOMAIN parsedData) \cup OwnKeys |->
        CASE k = "lastUpdated" -> now
          [] k = "sources" -> sources
          [] k = "isRealtime" -> IsRealtime(search, sources)
          [] OTHER -> parsedData[k]]

\* how the try block ends for a reply: "error" the oracle call rejected,
\* "empty" no text, "unparsable" JSON.parse threw, "ok" a snapshot is returned
OutcomeOf(reply) ==
    IF reply.threw THEN "error"
    ELSE IF ~reply.text.defined \/ reply.text.empty THEN "empty"
    ELSE IF ~JSON_parse(reply.text).ok THEN "unparsable"
    ELSE "ok"

\* a catch block that replaces the oracle's error by one of its own
ErrorOf_Rewritten(reply) ==
    CASE OutcomeOf(reply) = "error" -> "SEARCH_QUOTA_EXCEEDED"
      [] OutcomeOf(reply) = "empty" -> "AI_EMPTY_RESPONSE"
      [] OutcomeOf(reply) = "unparsable" -> JSON_parse(reply.text).error
      [] OTHER -> ""

\* the error the catch block receives
ErrorOf(reply) ==
    CASE OutcomeOf(reply) = "error" -> reply.error
      [] OutcomeOf(reply) = "empty" -> "AI_EMPTY_RESPONSE"
      [] OutcomeOf(reply) = "unparsable" -> JSON_parse(reply.text).error
      [] OTHER -> ""

\* a snapshot flagged with the mode the chain is first called in by the App
SnapshotOf_InitialMode(reply, now, search) ==
    AssembleSnapshot(JSON_parse(reply.text).value, now,
                     ExtractSources(reply.grounding), TRUE)

\* the value the try block returns
SnapshotOf(reply, now, search) ==
    AssembleSnapshot(JSON_parse(reply.text).value, now,
                     ExtractSources(reply.grounding), search)

\* a catch block without the downgrade branch
ShouldDowngrade_Never(s) == FALSE

\* if (useSearch), in the catch block
ShouldDowngrade(s) == s

\* budget handed to the non-search call of the downgrade
DowngradeRetries(r) == 0

\* a downgrade that hands its own useSearch on
DowngradeUseSearch_Same(s) == s

\* useSearch handed to the call of the downgrade
DowngradeUseSearch(s) == FALSE

\* budget handed to the call after a backoff
RetryRetries_Grows(r) == r + 1

\* retries - 1: the budget of the call after a backoff
RetryRetries(r) == r - 1

\* a retry test that still retries with no budget left
MayRetry_AtZero(r) == r >= 0

\* a retry test that is off by one
MayRetry_OffByOne(r) == r > 1

\* if (retries > 0)
MayRetry(r) == r > 0

\* a delay(1500) whose promise is not awaited
AwaitsDelay_Forgotten == FALSE

\* the await in front of delay(1500)
AwaitsDelay == TRUE

\* a description that always carries the coordinates, next to a city name
LocationDesc_Both(co, city) ==
    IF Truthy(city)
    THEN [label |-> "city",   city |-> {city}, coords |-> {co}]
    ELSE [label |-> "coords", city |-> {},     coords |-> {co}]

\* locationDesc: the city form when cityName is truthy, else the coordinate form
LocationDesc(co, city) ==
    IF Truthy(city)
    THEN [label |-> "city",   city |-> {city}, coords |-> {}]
    ELSE [label |-> "coords", city |-> {},     coords |-> {co}]

\* a notice that is sent on search-enabled attempts instead
PredictionNotice_Swapped(s) == s

\* ${!useSearch ? "...(prediction) label..." : ""}: is the fallback notice in the prompt
PredictionNotice(s) == ~s

\* the prompt template with its two holes filled
Prompt(co, city, s) ==
    [locationDesc |-> LocationDesc(co, city), predictionNotice |-> PredictionNotice(s)]

\* a config that always asks for the search tool
Config_AlwaysSearch(s) ==
    [responseMimeType |-> "application/json",
     responseSchema |-> [required |-> SchemaKeys],
     tools |-> {"googleSearch"}]

\* config: JSON mime type, the response schema, and googleSearch when useSearch
Config(s) ==
    [responseMimeType |-> "application/json",
     responseSchema |-> [required |-> SchemaKeys],
     tools |-> IF s THEN {"googleSearch"} ELSE {}]

\* the argument of ai.models.generateContent
BuildRequest(co, city, s) ==
    [model |-> "gemini-3-flash-preview", contents |-> Prompt(co, city, s), config |-> Config(s)]

----------------------------------------------------------------------------
(* Strings as sequences of characters *)

\* String.prototype.includes: sub occurs in str as a contiguous run
Includes(str, sub) ==
    \E i \in 0..(Len(str) - Len(sub)) : SubSeq(str, i + 1, i + Len(sub)) = sub

RECURSIVE Concat(_)
\* the concatenation of a sequence of strings
Concat(parts) == IF parts = << >> THEN << >> ELSE Head(parts) \o Concat(Tail(parts))

----------------------------------------------------------------------------
(* testApiConnection (src/services/geminiService.ts:7-20) *)

ProbeAlphabet == {"O", "K", "o"}

\* response.text of the probe: undefined, or a string
ProbeTexts ==
    { [defined |-> FALSE, chars |-> << >>] } \cup
    { [defined |-> TRUE, chars |-> cs] : cs \in SeqsUpTo(ProbeAlphabet, MaxProbeLen) }

\* what awaiting the probe's generateContent yields
ProbeReplies ==
    { [threw |-> TRUE, error |-> e, text |-> [defined |-> FALSE, chars |-> << >>]] : e \in OracleErrors } \cup
    { [threw |-> FALSE, error |-> "", text |-> t] : t \in ProbeTexts }

NoProbeReply == [threw |-> FALSE, error |-> "", text |-> [defined |-> FALSE, chars |-> << >>]]

\* a probe that asks for the search tool
ProbeRequest_WithSearch ==
    [model |-> "gemini-3-flash-preview",
     contents |-> "Hi, respond with 'OK' if you can hear me.",
     hasConfig |-> TRUE,
     tools |-> {"googleSearch"}]

\* the argument of the probe's generateContent: a model and a fixed prompt, no config
ProbeRequest ==
    [model |-> "gemini-3-flash-preview",
     contents |-> "Hi, respond with 'OK' if you can hear me.",
     hasConfig |-> FALSE,
     tools |-> {}]

\* a probe without the try/catch around the oracle call
ProbeSettle_NoCatch(reply) ==
    IF reply.threw \/ ~reply.text.defined
    THEN [raised |-> TRUE, value |-> FALSE]
    ELSE [raised |-> FALSE, value |-> Includes(reply.text.chars, <<"O", "K">>)]

\* how the probe settles: response.text.includes("OK"), and false from the
\* catch block when the call rejected or response.text is undefined
ProbeSettle(reply) ==
    IF reply.threw \/ ~reply.text.defined
    THEN [raised |-> FALSE, value |-> FALSE]
    ELSE [raised |-> FALSE, value |-> Includes(reply.text.chars, <<"O", "K">>)]

----------------------------------------------------------------------------
(* The catch block of getWeatherData *)

\* pieces error messages are made of
Fragments ==
    { <<"4", "2", "9">>, <<"4", "0", "3">>, <<"4", "0", "4">>, KeyMissingChars,
      <<"4">>, <<"2", "9">>, <<"x">> }

\* err.message of the errors the catch block receives
Messages == { Concat(fs) : fs \in SeqsUpTo(Fragments, MaxFragments) }

\* err.message || String(err)
ErrorMsg(message) == IF message = << >> THEN <<"E", "r", "r", "o", "r">> ELSE message

\* the shape of the error state; class stands for the message shown
AppError(class, isApiMissing, hasDetail, detail) ==
    [class |-> class, isApiMissing |-> isApiMissing, hasDetail |-> hasDetail, detail |-> detail]

NoAppError == AppError("none", FALSE, FALSE, << >>)

\* the if / else-if chain of the catch block with the detailed messages
ClassifyError(errorMsg) ==
    IF Includes(errorMsg, KeyMissingChars) THEN AppError("CredentialMissing", TRUE, FALSE, << >>)
    ELSE IF Includes(errorMsg, <<"4", "2", "9">>) THEN AppError("QuotaExceeded", FALSE, TRUE, errorMsg)
    ELSE IF Includes(errorMsg, <<"4", "0", "3">>) THEN AppError("AuthRejected", FALSE, TRUE, errorMsg)
    ELSE AppError("Unclassified", FALSE, TRUE, errorMsg)

\* the catch block of App.tsx: the missing key, or one message for everything else
ClassifyErrorApp(message) ==
    IF Includes(message, KeyMissingChars) THEN AppError("CredentialMissing", TRUE, FALSE, << >>)
    ELSE AppError("Unclassified", FALSE, FALSE, << >>)

----------------------------------------------------------------------------
(* The App component (src/App.tsx) *)

RECURSIVE Spaces(_)
\* a string of n blanks
Spaces(n) == IF n = 0 THEN "" ELSE " " \o Spaces(n - 1)

\* what the user can type into the search box: a text without blanks at
\* its ends, between lead and trail blanks
Queries ==
    { [lead |-> l, core |-> c, trail |-> t] :
        l \in 0..MaxPad, c \in {"Taipei"}, t \in 0..MaxPad } \cup
    { [lead |-> l, core |-> "", trail |-> 0] : l \in 0..MaxPad }

EmptyQuery == [lead |-> 0, core |-> "", trail |-> 0]

\* the string a query stands for
TextOf(q) == Spaces(q.lead) \o q.core \o Spaces(q.trail)

\* trimStart instead of trim
Trim_StartOnly(q) == [lead |-> 0, core |-> q.core, trail |-> q.trail]

\* String.prototype.trim
Trim(q) == [lead |-> 0, core |-> q.core, trail |-> 0]

\* the argument of getWeatherData: a string or a coordinate pair
StringTarget(text) == [isString |-> TRUE, text |-> text, coords |-> [lat |-> 0, lng |-> 0]]
CoordsTarget(co) == [isString |-> FALSE, text |-> "", coords |-> co]

\* typeof target === 'string' ? { lat: 0, lng: 0 } : target
CoordsArg(target) == IF target.isString THEN [lat |-> 0, lng |-> 0] ELSE target.coords

\* typeof target === 'string' ? target : undefined
CityArg(target) == IF target.isString THEN target.text ELSE Undefined

\* the defaults of the parameters retries and useSearch of fetchWeatherWithAI
DefaultRetries == 1
DefaultUseSearch == TRUE

\* positions the device can report
GeoPositions == Coordinates

\* err.message of the error a chain rejected with, as characters; reply is
\* the reply of the chain's last attempt: a rejection, which the chain
\* rethrows as it is, or a response, whose text the SyntaxError quotes
MessageChars(e, reply) ==
    IF reply.threw THEN reply.message
    ELSE CASE e = "API_KEY_MISSING" -> KeyMissingChars
           [] e = "AI_EMPTY_RESPONSE" -> <<"A", "I", "_", "E", "M", "P", "T", "Y", "_", "R", "E", "S", "P", "O", "N", "S", "E">>
           [] e = "SyntaxError" -> JSON_parse(reply.text).message
           [] OTHER -> << >>

\* weatherData before any request succeeded: null
NoWeatherData == << >>

\* an error callback that forgets to set the error
GeoDeniedError_Unset == NoAppError

\* the error set by the error callback of getCurrentPosition
GeoDeniedError == AppError("GeoDenied", FALSE, FALSE, << >>)

\* the error set when navigator.geolocation is missing
GeoUnsupportedError == AppError("GeoUnsupported", FALSE, FALSE, << >>)

\* setLoading(false) placed at the end of the try block
SettledLoading_OnlyOnSuccess(ok) == ~ok

\* finally { setLoading(false) }: loading after getWeatherData has settled
SettledLoading(ok) == FALSE

\* a catch block that clears the snapshot
DataAfterFailure_Cleared(data) == NoWeatherData

\* the catch block does not call setWeatherData
DataAfterFailure(data) == data

\* a form that is rendered next to the spinner
FormRendered_Always(isLoading) == TRUE

\* if (loading) return <spinner>: the search form is rendered when not loading
FormRendered(isLoading) == ~isLoading

\* {error && ...}: the retry button is rendered with the error, when not loading
RetryRendered(isLoading, err) == ~isLoading /\ err # NoAppError

\* {weatherData && ...}: the snapshot is rendered when there is one, when not loading
DataRendered(isLoading, data) == ~isLoading /\ data # NoWeatherData

----------------------------------------------------------------------------
(* State *)

VARIABLES
    apiKey,     \* process.env.API_KEY
    pc,         \* per chain: "idle", "awaitOracle", "delaying", "done", "failed"
    coords,     \* per chain: coords of the innermost frame
    cityName,   \* per chain: cityName of the innermost frame
    retries,    \* per chain: retries of the innermost frame
    useSearch,  \* per chain: useSearch of the innermost frame
    lastReply,  \* per chain: the reply the latest attempt received
    lastNow,    \* per chain: the clock reading of the returning attempt
    result,     \* per chain: the snapshot the chain resolved with
    error,      \* per chain: the error the chain rejected with
    log,        \* per chain: the events of the chain, oldest first
    requests,   \* per chain: the requests sent to the oracle, oldest first
    probePc,        \* testApiConnection: "idle", "awaitOracle", "done", "raised"
    probeResult,    \* testApiConnection: the boolean it resolved with
    probeReply,     \* testApiConnection: the reply its oracle call received
    probeRequests,  \* testApiConnection: the requests it sent, oldest first
    caught,         \* getWeatherData: err.message of the error its catch block received
    appError,       \* getWeatherData: the error state set by the catch block with details
    appErrorBasic,  \* getWeatherData: the error state set by the catch block of App.tsx
    loading,        \* App: the loading state
    weatherData,    \* App: the weatherData state, NoWeatherData for null
    location,       \* App: the location state, {} for null
    searchQuery,    \* App: the searchQuery state
    geoSupported,   \* whether navigator.geolocation exists
    geoPending,     \* App: calls of getCurrentPosition whose callback is pending
    geoResult,      \* the callback getCurrentPosition invoked last: "none", "success", "error"
    awaiting,       \* App: the chains a call of getWeatherData is awaiting
    mounted,        \* App: whether the mount effect has run
    submitTick      \* App: parity of the number of form submissions handled

chainVars == <<pc, coords, cityName, retries, useSearch,
               lastReply, lastNow, result, error, log, requests>>

probeVars == <<probePc, probeResult, probeReply, probeRequests>>

boundaryVars == <<caught, appError, appErrorBasic>>

appVars == <<loading, weatherData, location, searchQuery, geoSupported,
             geoPending, geoResult, awaiting, mounted, submitTick>>

vars == <<apiKey, chainVars, probeVars, boundaryVars, appVars>>

\* an event of a chain, made in the frame with parameters (s, r)
Event(type, s, r, outcome) ==
    [type |-> type, useSearch |-> s, retries |-> r, outcome |-> outcome]

NoReply == [threw |-> FALSE, error |-> "", message |-> << >>, text |-> NoText, grounding |-> NoGrounding]

Init ==
    /\ apiKey \in ApiKeys
    /\ pc = [c \in Chains |-> "idle"]
    /\ coords = [c \in Chains |-> [lat |-> 0, lng |-> 0]]
    /\ cityName = [c \in Chains |-> Undefined]
    /\ retries = [c \in Chains |-> 0]
    /\ useSearch = [c \in Chains |-> FALSE]
    /\ lastReply = [c \in Chains |-> NoReply]
    /\ lastNow = [c \in Chains |-> ""]
    /\ result = [c \in Chains |-> NullDoc]
    /\ error = [c \in Chains |-> ""]
    /\ log = [c \in Chains |-> << >>]
    /\ requests = [c \in Chains |-> << >>]
    /\ probePc = "idle"
    /\ probeResult = FALSE
    /\ probeReply = NoProbeReply
    /\ probeRequests = << >>
    /\ caught = << >>
    /\ appError = NoAppError
    /\ appErrorBasic = NoAppError
    /\ loading = TRUE
    /\ weatherData = NoWeatherData
    /\ location = {}
    /\ searchQuery = EmptyQuery
    /\ geoSupported \in BOOLEAN
    /\ geoPending = 0
    /\ geoResult = "none"
    /\ awaiting = {}
    /\ mounted = FALSE
    /\ submitTick = FALSE

----------------------------------------------------------------------------
(* Operations *)

\* parameters kept in one module-level slot that all calls share
SetFrame_Shared(f, c, v) == [d \in Chains |-> v]

\* a parameter of a call is a local of that call: binding it touches chain c only
SetFrame(f, c, v) == [f EXCEPT ![c] = v]

\* A call of fetchWeatherWithAI(co, city, r, s) in chain c, up to its first
\* await: the credential check, then the oracle request.  events is the
\* chain's log so far.
Enter(c, co, city, r, s, events) ==
    /\ coords' = SetFrame(coords, c, co)
    /\ cityName' = SetFrame(cityName, c, city)
    /\ retries' = SetFrame(retries, c, r)
    /\ useSearch' = SetFrame(useSearch, c, s)
    /\ IF ApiKeyAbsent(apiKey)
       THEN /\ pc' = [pc EXCEPT ![c] = "failed"]
            /\ error' = [error EXCEPT ![c] = "API_KEY_MISSING"]
            /\ log' = [log EXCEPT ![c] = Append(events, Event("throw", s, r, "-"))]
            /\ requests' = requests
       ELSE /\ pc' = [pc EXCEPT ![c] = "awaitOracle"]
            /\ error' = error
            /\ log' = [log EXCEPT ![c] = Append(events, Event("call", s, r, "-"))]
            /\ requests' = [requests EXCEPT ![c] = Append(@, BuildRequest(co, city, s))]

\* the caller invokes fetchWeatherWithAI with a city name of cities
InvokeWith(c, cities) ==
    /\ pc[c] = "idle"
    /\ \E co \in Coordinates, city \in cities, r \in 0..MaxRetries, s \in BOOLEAN :
          Enter(c, co, city, r, s, log[c])
    /\ UNCHANGED <<apiKey, lastReply, lastNow, result, probeVars, boundaryVars, appVars>>

\* the caller invokes fetchWeatherWithAI
Invoke(c) == InvokeWith(c, CityNames)

\* the awaited generateContent settles with reply; the rest of the try block
\* runs and, on a failure, the catch block up to its next await
OracleRepliesWith(c, replies, times) ==
    /\ pc[c] = "awaitOracle"
    /\ \E reply \in replies, now \in times :
        LET s == useSearch[c]
            r == retries[c]
            replied == Append(log[c], Event("reply", s, r, OutcomeOf(reply)))
        IN
        /\ lastReply' = [lastReply EXCEPT ![c] = reply]
        /\ IF OutcomeOf(reply) = "ok"
           THEN /\ pc' = [pc EXCEPT ![c] = "done"]
                /\ result' = [result EXCEPT ![c] = SnapshotOf(reply, now, s)]
                /\ lastNow' = [lastNow EXCEPT ![c] = now]
                /\ log' = [log EXCEPT ![c] = Append(replied, Event("return", s, r, "-"))]
                /\ UNCHANGED <<coords, cityName, retries, useSearch, error, requests>>
           ELSE /\ UNCHANGED <<result, lastNow>>
                /\ IF ShouldDowngrade(s)
                   THEN Enter(c, coords[c], cityName[c], DowngradeRetries(r),
                              DowngradeUseSearch(s), replied)
                   ELSE IF MayRetry(r)
                   THEN IF AwaitsDelay
                        THEN /\ pc' = [pc EXCEPT ![c] = "delaying"]
                             /\ log' = [log EXCEPT ![c] = Append(replied, Event("delay", s, r, "-"))]
                             /\ UNCHANGED <<coords, cityName, retries, useSearch, error, requests>>
                        ELSE Enter(c, coords[c], cityName[c], RetryRetries(r), FALSE,
                                   Append(replied, Event("delay", s, r, "-")))
                   ELSE /\ pc' = [pc EXCEPT ![c] = "failed"]
                        /\ error' = [error EXCEPT ![c] = ErrorOf(reply)]
                        /\ log' = [log EXCEPT ![c] = Append(replied, Event("throw", s, r, "-"))]
                        /\ UNCHANGED <<coords, cityName, retries, useSearch, requests>>
    /\ UNCHANGED <<apiKey, probeVars, boundaryVars, appVars>>

\* the awaited generateContent settles
OracleReplies(c) == OracleRepliesWith(c, Replies, Times)

\* the timer of delay(1500) fires; the frame calls itself with one retry less
DelayElapses(c) ==
    /\ pc[c] = "delaying"
    /\ Enter(c, coords[c], cityName[c], RetryRetries(retries[c]), FALSE, log[c])
    /\ UNCHANGED <<apiKey, lastReply, lastNow, result, probeVars, boundaryVars, appVars>>

\* the steps of the chains in cs
NextOf(cs) == \E c \in cs : Invoke(c) \/ OracleReplies(c) \/ DelayElapses(c)

Next == NextOf({1})

Spec == Init /\ [][Next]_vars

\* testApiConnection is called: the credential check, then the oracle request
StartProbe ==
    /\ probePc = "idle"
    /\ IF ApiKeyAbsent(apiKey)
       THEN /\ probePc' = "done"
            /\ probeResult' = FALSE
            /\ probeRequests' = probeRequests
       ELSE /\ probePc' = "awaitOracle"
            /\ probeResult' = probeResult
            /\ probeRequests' = Append(probeRequests, ProbeRequest)
    /\ UNCHANGED <<apiKey, chainVars, probeReply, boundaryVars, appVars>>

\* the probe's generateContent settles; testApiConnection resolves
ProbeSettles ==
    /\ probePc = "awaitOracle"
    /\ \E reply \in ProbeReplies :
          /\ probeReply' = reply
          /\ probePc' = IF ProbeSettle(reply).raised THEN "raised" ELSE "done"
          /\ probeResult' = ProbeSettle(reply).value
    /\ UNCHANGED <<apiKey, chainVars, probeRequests, boundaryVars, appVars>>

ProbeNext == StartProbe \/ ProbeSettles

ProbeSpec == Init /\ [][ProbeNext]_vars

\* oracle replies of the two-chain runs: a rejection, unparsable text, and
\* a well-formed reply with one grounding chunk
ConcReplies ==
    { [threw |-> TRUE, error |-> "fetch failed", message |-> OracleErrorMessage("fetch failed"),
       text |-> NoText, grounding |-> NoGrounding],
      [threw |-> FALSE, error |-> "", message |-> << >>,
       text |-> [defined |-> TRUE, empty |-> FALSE, json |-> FALSE, doc |-> NullDoc, raw |-> <<"x">>],
       grounding |-> NoGrounding],
      [threw |-> FALSE, error |-> "", message |-> << >>,
       text |-> [defined |-> TRUE, empty |-> FALSE, json |-> TRUE, doc |-> WellFormedDoc(<< >>),
                 raw |-> << >>],
       grounding |-> [present |-> TRUE,
                      chunks |-> << [hasWeb |-> TRUE, title |-> "CWA", uri |-> "https://cwa.gov.tw"] >>]] }

ConcTimes == {"10:00:00"}

ConcCities == {"Taipei"}

\* two callers invoke fetchWeatherWithAI independently; their chains interleave
NextConc ==
    \E c \in Chains :
        \/ InvokeWith(c, ConcCities)
        \/ OracleRepliesWith(c, ConcReplies, ConcTimes)
        \/ DelayElapses(c)

SpecConc == Init /\ [][NextConc]_vars

\* every pending oracle call settles and every timer fires
FairSpec == Spec /\ WF_vars(OracleReplies(1)) /\ WF_vars(DelayElapses(1))

----------------------------------------------------------------------------
(* Operations of the App component *)

\* oracle replies of the App's runs: two rejections, the texts that are
\* not JSON, and two well-formed replies, one with a grounding chunk
AppReplies ==
    ConcReplies \cup
    { [threw |-> TRUE, error |-> "429 RESOURCE_EXHAUSTED",
       message |-> OracleErrorMessage("429 RESOURCE_EXHAUSTED"),
       text |-> NoText, grounding |-> NoGrounding],
      [threw |-> FALSE, error |-> "", message |-> << >>,
       text |-> [defined |-> TRUE, empty |-> FALSE, json |-> TRUE,
                 doc |-> WellFormedDoc(<< DailyForecast(1) >>), raw |-> << >>],
       grounding |-> NoGrounding] } \cup
    { [threw |-> FALSE, error |-> "", message |-> << >>,
       text |-> [defined |-> TRUE, empty |-> FALSE, json |-> FALSE, doc |-> NullDoc, raw |-> t],
       grounding |-> NoGrounding] : t \in NonJsonTexts }

AppTimes == {"10:00:00"}

\* the chains no call is using
FreeChains == {c \in Chains : pc[c] = "idle" /\ c \notin awaiting}

\* the least chain no call is using
FreeChain == CHOOSE c \in FreeChains : \A d \in FreeChains : c <= d

\* getWeatherData(target) up to its await: setLoading(true), setError(null),
\* and the call of fetchWeatherWithAI with the default retries and useSearch
GetWeatherData(target) ==
    /\ FreeChains # {}
    /\ loading' = TRUE
    /\ appError' = NoAppError
    /\ appErrorBasic' = NoAppError
    /\ Enter(FreeChain, CoordsArg(target), CityArg(target), DefaultRetries, DefaultUseSearch, << >>)
    /\ awaiting' = awaiting \cup {FreeChain}
    /\ caught' = << >>
    /\ UNCHANGED <<apiKey, lastReply, lastNow, result, probeVars, weatherData>>

\* the body of tryGeolocation: setLoading(true), setError(null), then the
\* lookup, or the error and setLoading(false) when geolocation is missing
TryGeolocation ==
    /\ loading' = geoSupported
    /\ appError' = IF geoSupported THEN NoAppError ELSE GeoUnsupportedError
    /\ appErrorBasic' = IF geoSupported THEN NoAppError ELSE GeoUnsupportedError
    /\ geoPending' = IF geoSupported THEN geoPending + 1 ELSE geoPending
    /\ UNCHANGED <<apiKey, chainVars, probeVars, caught, weatherData, location,
                   searchQuery, geoSupported, geoResult, awaiting, submitTick>>

\* useEffect(() => { tryGeolocation() }, [getWeatherData]): runs once, after the first render
Mount ==
    /\ ~mounted
    /\ mounted' = TRUE
    /\ TryGeolocation

\* the retry button is clicked
ClickRetry ==
    /\ mounted
    /\ RetryRendered(loading, appErrorBasic)
    /\ mounted' = mounted
    /\ TryGeolocation

\* the success callback of getCurrentPosition
GeoSucceeds ==
    /\ geoPending > 0
    /\ geoPending' = geoPending - 1
    /\ geoResult' = "success"
    /\ \E co \in GeoPositions :
          /\ location' = {co}
          /\ GetWeatherData(CoordsTarget(co))
    /\ UNCHANGED <<searchQuery, geoSupported, mounted, submitTick>>

\* the error callback of getCurrentPosition
GeoFails ==
    /\ geoPending > 0
    /\ geoPending' = geoPending - 1
    /\ geoResult' = "error"
    /\ appError' = GeoDeniedError
    /\ appErrorBasic' = GeoDeniedError
    /\ loading' = FALSE
    /\ UNCHANGED <<apiKey, chainVars, probeVars, caught, weatherData, location,
                   searchQuery, geoSupported, awaiting, mounted, submitTick>>

\* onChange of the search box
TypeQuery ==
    /\ mounted
    /\ FormRendered(loading)
    /\ \E q \in Queries : searchQuery' = q
    /\ UNCHANGED <<apiKey, chainVars, probeVars, boundaryVars, loading, weatherData, location,
                   geoSupported, geoPending, geoResult, awaiting, mounted, submitTick>>

\* handleManualSearch: the search form is submitted
HandleManualSearch ==
    /\ mounted
    /\ FormRendered(loading)
    /\ submitTick' = ~submitTick
    /\ IF Truthy(TextOf(Trim(searchQuery)))
       THEN GetWeatherData(StringTarget(TextOf(Trim(searchQuery))))
       ELSE UNCHANGED <<apiKey, chainVars, probeVars, boundaryVars, loading, weatherData, awaiting>>
    /\ UNCHANGED <<location, searchQuery, geoSupported, geoPending, geoResult, mounted>>

\* the rest of getWeatherData after its await on chain c: setWeatherData
\* when the chain resolved (ok), the catch block with err.message = message
\* when it rejected, then finally; the frames of the chain are gone
Continuation(c, ok, message) ==
    /\ weatherData' = IF ok THEN result[c] ELSE DataAfterFailure(weatherData)
    /\ caught' = IF ok THEN caught ELSE message
    /\ appError' = IF ok THEN appError ELSE ClassifyError(ErrorMsg(message))
    /\ appErrorBasic' = IF ok THEN appErrorBasic ELSE ClassifyErrorApp(message)
    /\ loading' = SettledLoading(ok)
    /\ awaiting' = awaiting \ {c}
    /\ pc' = [pc EXCEPT ![c] = "idle"]
    /\ coords' = [coords EXCEPT ![c] = [lat |-> 0, lng |-> 0]]
    /\ cityName' = [cityName EXCEPT ![c] = Undefined]
    /\ retries' = [retries EXCEPT ![c] = 0]
    /\ useSearch' = [useSearch EXCEPT ![c] = FALSE]
    /\ lastReply' = [lastReply EXCEPT ![c] = NoReply]
    /\ lastNow' = [lastNow EXCEPT ![c] = ""]
    /\ result' = [result EXCEPT ![c] = NullDoc]
    /\ error' = [error EXCEPT ![c] = ""]
    /\ log' = [log EXCEPT ![c] = << >>]
    /\ requests' = [requests EXCEPT ![c] = << >>]
    /\ UNCHANGED <<apiKey, probeVars, location, searchQuery, geoSupported,
                   geoPending, geoResult, mounted, submitTick>>

\* the awaited fetchWeatherWithAI of chain c has settled
GetWeatherDataSettles(c) ==
    /\ c \in awaiting
    /\ pc[c] \in {"done", "failed"}
    /\ Continuation(c, pc[c] = "done", MessageChars(error[c], lastReply[c]))

\* the steps of the chains the App awaits
AppChainStep(c) ==
    /\ c \in awaiting
    /\ \/ OracleRepliesWith(c, AppReplies, AppTimes)
       \/ DelayElapses(c)

\* oracle replies of the runs in which every request fails: a rejection
\* with an error of any message
BoundaryReplies ==
    { [threw |-> TRUE, error |-> "Error", message |-> m, text |-> NoText, grounding |-> NoGrounding] :
        m \in Messages }

\* the steps of the chains the App awaits, every oracle call rejecting
BoundaryChainStep(c) ==
    /\ c \in awaiting
    /\ \/ OracleRepliesWith(c, BoundaryReplies, AppTimes)
       \/ DelayElapses(c)

\* the App with every request failing
BoundaryNext ==
    \/ Mount
    \/ ClickRetry
    \/ GeoSucceeds
    \/ GeoFails
    \/ TypeQuery
    \/ HandleManualSearch
    \/ \E c \in Chains : BoundaryChainStep(c) \/ GetWeatherDataSettles(c)

BoundarySpec == Init /\ [][BoundaryNext]_vars

AppNext ==
    \/ Mount
    \/ ClickRetry
    \/ GeoSucceeds
    \/ GeoFails
    \/ TypeQuery
    \/ HandleManualSearch
    \/ \E c \in Chains : AppChainStep(c) \/ GetWeatherDataSettles(c)

AppSpec == Init /\ [][AppNext]_vars

\* every pending oracle call settles, every timer fires, and the
\* continuation of a settled await runs
FairAppSpec ==
    /\ AppSpec
    /\ \A c \in Chains :
          /\ WF_vars(AppChainStep(c))
          /\ WF_vars(GetWeatherDataSettles(c))

----------------------------------------------------------------------------
(* Reading a chain's log *)

IsCall(e) == e.type = "call"

\* positions of the events of the given type
Positions(events, type) == {i \in 1..Len(events) : events[i].type = type}

NumCalls(events, s) ==
    Cardinality({i \in Positions(events, "call") : events[i].useSearch = s})

NumDelays(events) == Cardinality(Positions(events, "delay"))

TypeOK ==
    /\ apiKey \in ApiKeys
    /\ \A c \in Chains :
        /\ pc[c] \in {"idle", "awaitOracle", "delaying", "done", "failed"}
        /\ retries[c] \in 0..MaxRetries
        /\ useSearch[c] \in BOOLEAN
        /\ lastReply[c] \in Replies \cup {NoReply}

----------------------------------------------------------------------------
(* Properties *)

\* the reply events of a chain's log whose attempt failed
FailedReplies(events) == {i \in Positions(events, "reply") : events[i].outcome # "ok"}

\* C1: with process.env.API_KEY absent (unset or empty) an invoked chain has
\* failed with API_KEY_MISSING, and all it ever did is throw: no oracle call,
\* no downgrade, no backoff, no retry, whatever retries and useSearch are.
C1_MissingCredentialFailsLocally ==
    \A c \in Chains :
        (apiKey \in {Undefined, ""} /\ pc[c] # "idle") =>
            /\ pc[c] = "failed"
            /\ error[c] = "API_KEY_MISSING"
            /\ Len(log[c]) = 1
            /\ log[c][1].type = "throw"
            /\ Positions(log[c], "call") = {}
            /\ Positions(log[c], "delay") = {}

\* C1 witness: a search-enabled call with a retry budget, made without a key, has failed
C1_Witness ==
    /\ apiKey = ""
    /\ pc[1] = "failed"
    /\ log[1][1].useSearch
    /\ log[1][1].retries > 0

\* C2: a failed search-enabled attempt is followed at once by one oracle
\* request with search disabled: no backoff happened up to that request, and
\* a second request does not follow it without a backoff in between.
C2_SearchFailureDowngradesFirst ==
    \A c \in Chains : \A i \in FailedReplies(log[c]) :
        log[c][i].useSearch =>
            /\ i + 1 <= Len(log[c])
            /\ log[c][i + 1].type = "call"
            /\ ~log[c][i + 1].useSearch
            /\ \A j \in 1..(i + 1) : log[c][j].type # "delay"
            /\ (i + 3 <= Len(log[c])) => log[c][i + 3].type # "call"

\* C2 witness: a search-enabled attempt with a retry budget failed on an
\* unparsable reply and the non-search request is out
C2_Witness ==
    /\ Len(log[1]) = 3
    /\ log[1][2].type = "reply" /\ log[1][2].useSearch
    /\ log[1][2].outcome = "unparsable" /\ log[1][2].retries > 0
    /\ pc[1] = "awaitOracle"

\* C3 (as claimed): the non-search request of a downgrade starts with the
\* retry budget the failed search-enabled attempt had.
C3_DowngradeKeepsBudget ==
    \A c \in Chains : \A i \in FailedReplies(log[c]) :
        (log[c][i].useSearch /\ i + 1 <= Len(log[c]) /\ log[c][i + 1].type = "call") =>
            log[c][i + 1].retries = log[c][i].retries

\* C4: in a chain invoked in non-search mode with budget N, every attempt is
\* a non-search one, every attempt after the first comes right after one
\* backoff and has one retry less than the attempt before, the error is
\* thrown only by the attempt with budget 0, and a chain that failed made
\* N + 1 attempts and N backoffs.
C4_NonSearchRetriesExactlyBudget ==
    \A c \in Chains :
        (Len(log[c]) > 0 /\ log[c][1].type = "call" /\ ~log[c][1].useSearch) =>
            LET N == log[c][1].retries
                calls == Positions(log[c], "call")
            IN  /\ \A i \in calls : ~log[c][i].useSearch
                /\ \A i \in calls : i > 1 =>
                      /\ log[c][i - 1].type = "delay"
                      /\ log[c][i - 2].type = "reply"
                      /\ log[c][i].retries = log[c][i - 2].retries - 1
                /\ \A i \in Positions(log[c], "throw") : log[c][i].retries = 0
                /\ pc[c] = "failed" =>
                      /\ NumCalls(log[c], FALSE) = N + 1
                      /\ NumDelays(log[c]) = N
                      /\ FailedReplies(log[c]) = Positions(log[c], "reply")

\* C4 witness: a non-search chain with budget 1 has failed after two attempts
C4_Witness ==
    /\ pc[1] = "failed"
    /\ log[1][1].type = "call" /\ ~log[1][1].useSearch /\ log[1][1].retries = 1
    /\ NumCalls(log[1], FALSE) = 2

\* C5: a chain makes at most one search-enabled oracle call, a backoff only
\* ever follows the failure of a non-search attempt, and after a non-search
\* call no search-enabled call is made.
C5_AtMostOneSearchCall ==
    \A c \in Chains :
        /\ NumCalls(log[c], TRUE) <= 1
        /\ \A i \in Positions(log[c], "delay") :
              /\ log[c][i - 1].type = "reply"
              /\ ~log[c][i - 1].useSearch
        /\ \A i, j \in Positions(log[c], "call") :
              (i < j /\ ~log[c][i].useSearch) => ~log[c][j].useSearch

\* C5 witness: the search-enabled attempt and the non-search attempt after it both failed
C5_Witness ==
    /\ pc[1] = "failed"
    /\ NumCalls(log[1], TRUE) = 1
    /\ NumCalls(log[1], FALSE) = 1

----------------------------------------------------------------------------
(* Properties of the returned snapshot *)

\* the number of grounding chunks the reply carries
NumChunks(reply) == IF reply.grounding.present THEN Len(reply.grounding.chunks) ELSE 0

\* useSearch of the attempt that returned (the frame of the last event)
ReturningSearch(c) == log[c][Len(log[c])].useSearch

\* the JSON document of the reply the returning attempt parsed
ReturnedDoc(c) == lastReply[c].text.doc

\* the dates of a forecast are in non-decreasing order
DatesOrdered(fc) == \A i, j \in 1..Len(fc) : i < j => fc[i].date <= fc[j].date

\* C6: a returned snapshot has isRealtime exactly when the returning attempt
\* had search enabled and its reply carried at least one grounding chunk;
\* isRealtime is false when sources is empty, and a search-enabled attempt
\* whose reply has one chunk returns isRealtime = true with one source.
C6_RealtimeIffSearchAndSources ==
    \A c \in Chains : pc[c] = "done" =>
        /\ result[c]["isRealtime"] = (ReturningSearch(c) /\ NumChunks(lastReply[c]) > 0)
        /\ result[c]["sources"] = << >> => ~result[c]["isRealtime"]
        /\ (ReturningSearch(c) /\ NumChunks(lastReply[c]) = 1) =>
              /\ result[c]["isRealtime"]
              /\ Len(result[c]["sources"]) = 1

\* C6 witness: a search-enabled attempt whose reply has one chunk returned
C6_Witness ==
    /\ pc[1] = "done"
    /\ ReturningSearch(1)
    /\ NumChunks(lastReply[1]) = 1
    /\ result[1]["isRealtime"]

\* C7: a snapshot returned by a non-search attempt, after a downgrade or
\* not, has isRealtime = false whatever grounding its reply carries, and a
\* snapshot with isRealtime = true comes from a search-enabled attempt and
\* lists one source per grounding chunk of that attempt's reply.
C7_NonSearchNeverRealtime ==
    \A c \in Chains : pc[c] = "done" =>
        /\ ~ReturningSearch(c) => result[c]["isRealtime"] = FALSE
        /\ NumCalls(log[c], FALSE) > 0 => result[c]["isRealtime"] = FALSE
        /\ result[c]["isRealtime"] =>
              /\ ReturningSearch(c)
              /\ NumCalls(log[c], FALSE) = 0
              /\ Len(result[c]["sources"]) > 0
              /\ Len(result[c]["sources"]) = NumChunks(lastReply[c])

\* C7 witness: after a downgrade the non-search attempt returned on a reply with a chunk
C7_Witness ==
    /\ pc[1] = "done"
    /\ NumCalls(log[1], TRUE) = 1
    /\ NumCalls(log[1], FALSE) = 1
    /\ NumChunks(lastReply[1]) > 0
    /\ ~result[1]["isRealtime"]

\* the reply has no text, empty text, or text that is not JSON
InvalidText(reply) ==
    /\ ~reply.threw
    /\ ~reply.text.defined \/ reply.text.empty \/ ~reply.text.json

\* the event that follows a failed attempt made with (s, r)
FailurePolicy(s, r) ==
    IF s THEN "call" ELSE IF r > 0 THEN "delay" ELSE "throw"

\* C8: an attempt whose reply has no text, empty text or unparsable text
\* never returns a snapshot, and every failed attempt, whether the oracle
\* call rejected or the text was invalid, is followed by the same step:
\* the non-search call if search was enabled, else a backoff if budget
\* remains, else the throw.
C8_InvalidReplyIsAFailure ==
    \A c \in Chains :
        /\ (Positions(log[c], "reply") # {} /\ InvalidText(lastReply[c])) =>
              /\ pc[c] # "done"
              /\ Positions(log[c], "return") = {}
              /\ log[c][CHOOSE i \in Positions(log[c], "reply") :
                            \A j \in Positions(log[c], "reply") : j <= i].outcome
                    \in {"empty", "unparsable"}
        /\ \A i \in FailedReplies(log[c]) :
              /\ i + 1 <= Len(log[c])
              /\ log[c][i + 1].type = FailurePolicy(log[c][i].useSearch, log[c][i].retries)
              /\ log[c][i + 1].type = "call" => ~log[c][i + 1].useSearch

\* C8 witness: an unparsable reply to a non-search attempt with budget left led to a backoff
C8_Witness ==
    /\ pc[1] = "delaying"
    /\ InvalidText(lastReply[1])
    /\ lastReply[1].text.defined /\ ~lastReply[1].text.empty
    /\ log[1][Len(log[1]) - 1].outcome = "unparsable"

\* C9 (as claimed): the forecast of every returned snapshot is in non-decreasing date order.
C9_ForecastAlwaysOrdered ==
    \A c \in Chains :
        (pc[c] = "done" /\ "forecast" \in DOMAIN result[c]) =>
            DatesOrdered(result[c]["forecast"])

\* C9 (amended): the forecast of a returned snapshot is in non-decreasing
\* date order whenever the forecast of the accepted reply is.
C9_ForecastOrderedIfReplyIs ==
    \A c \in Chains :
        (/\ pc[c] = "done"
         /\ "forecast" \in DOMAIN ReturnedDoc(c)
         /\ DatesOrdered(ReturnedDoc(c)["forecast"])) =>
            /\ "forecast" \in DOMAIN result[c]
            /\ Len(result[c]["forecast"]) = Len(ReturnedDoc(c)["forecast"])
            /\ DatesOrdered(result[c]["forecast"])

\* C9 witness: a reply with two forecast entries of different dates, in order, was returned
C9_Witness ==
    /\ pc[1] = "done"
    /\ "forecast" \in DOMAIN result[1]
    /\ Len(result[1]["forecast"]) = 2
    /\ result[1]["forecast"][1].date < result[1]["forecast"][2].date

\* C10: for a reply whose JSON has the schema's keys, the snapshot has
\* exactly the schema's keys and lastUpdated, sources, isRealtime; the
\* schema's keys carry the reply's values, and the other three carry the
\* clock reading, the sources of the grounding chunks and the computed flag,
\* also when the reply's JSON has keys of these names.
C10_RoundTrip ==
    \A c \in Chains :
        (pc[c] = "done" /\ SchemaKeys \subseteq DOMAIN ReturnedDoc(c)) =>
            /\ DOMAIN result[c] = SchemaKeys \cup OwnKeys
            /\ \A k \in SchemaKeys : result[c][k] = ReturnedDoc(c)[k]
            /\ result[c]["lastUpdated"] = lastNow[c]
            /\ Len(result[c]["sources"]) = NumChunks(lastReply[c])
            /\ \A i \in 1..Len(result[c]["sources"]) :
                  /\ result[c]["sources"][i].title # "forged"
                  /\ lastReply[c].grounding.chunks[i].hasWeb =>
                        result[c]["sources"][i].title \in
                            {lastReply[c].grounding.chunks[i].title, "weather source"}
            /\ result[c]["isRealtime"] = (ReturningSearch(c) /\ Len(result[c]["sources"]) > 0)

\* C10 witness: a non-search attempt returned on a reply that has its own
\* lastUpdated, sources and isRealtime = true
C10_Witness ==
    /\ pc[1] = "done"
    /\ OwnKeys \subseteq DOMAIN ReturnedDoc(1)
    /\ ReturnedDoc(1)["isRealtime"]
    /\ ~ReturningSearch(1)
    /\ ~result[1]["isRealtime"]
    /\ result[1]["lastUpdated"] # ReturnedDoc(1)["lastUpdated"]

----------------------------------------------------------------------------
(* Properties of sources, errors, requests and ordering *)

\* the chunk has no usable web title / uri (web absent, or the field unset or empty)
LacksTitle(chunk) == ~chunk.hasWeb \/ chunk.title \in {Undefined, ""}
LacksUri(chunk) == ~chunk.hasWeb \/ chunk.uri \in {Undefined, ""}

\* C11: the sources of a returned snapshot have one entry per grounding
\* chunk of the reply, in the chunks' order (none when the reply has no
\* grounding metadata); every title and uri is a non-empty string: the
\* chunk's own, or the placeholder title / '#' when the chunk lacks it.
C11_OneSourcePerChunk ==
    \A c \in Chains : pc[c] = "done" =>
        LET srcs == result[c]["sources"]
            g == lastReply[c].grounding
        IN  /\ Len(srcs) = NumChunks(lastReply[c])
            /\ ~g.present => srcs = << >>
            /\ \A i \in 1..Len(srcs) :
                  /\ srcs[i].title \notin {Undefined, ""}
                  /\ srcs[i].uri \notin {Undefined, ""}
                  /\ srcs[i].title =
                        IF LacksTitle(g.chunks[i]) THEN "weather source" ELSE g.chunks[i].title
                  /\ srcs[i].uri =
                        IF LacksUri(g.chunks[i]) THEN "#" ELSE g.chunks[i].uri

\* C11 witness: a reply whose chunk has an empty title and no uri was returned
C11_Witness ==
    /\ pc[1] = "done"
    /\ NumChunks(lastReply[1]) = 1
    /\ lastReply[1].grounding.chunks[1].hasWeb
    /\ lastReply[1].grounding.chunks[1].title = ""
    /\ result[1]["sources"][1].uri = "#"

\* C13: a chain that failed after an oracle call rejects with the error its
\* last attempt raised, unchanged: the oracle's own error, AI_EMPTY_RESPONSE
\* for a reply without text, the parse error for unparsable text; a chain
\* that failed without an oracle call rejects with the API_KEY_MISSING its
\* invocation raised.  A chain ends either with a snapshot (and no error)
\* or with such an error (and no snapshot).
C13_ErrorPropagatesUnchanged ==
    \A c \in Chains :
        /\ (pc[c] = "failed" /\ Positions(log[c], "call") # {}) =>
              /\ lastReply[c].threw => error[c] = lastReply[c].error
              /\ (~lastReply[c].threw /\ (~lastReply[c].text.defined \/ lastReply[c].text.empty))
                    => error[c] = "AI_EMPTY_RESPONSE"
              /\ (~lastReply[c].threw /\ lastReply[c].text.defined /\ ~lastReply[c].text.empty)
                    => (~lastReply[c].text.json /\ error[c] = "SyntaxError")
        /\ (pc[c] = "failed" /\ Positions(log[c], "call") = {}) => error[c] = "API_KEY_MISSING"
        /\ pc[c] = "failed" =>
              /\ error[c] # ""
              /\ result[c] = NullDoc
              /\ log[c][Len(log[c])].type = "throw"
        /\ pc[c] = "done" =>
              /\ error[c] = ""
              /\ OwnKeys \subseteq DOMAIN result[c]
              /\ log[c][Len(log[c])].type = "return"
        /\ pc[c] \in {"failed", "done"} <=>
              (Positions(log[c], "throw") \cup Positions(log[c], "return") # {})

\* C13 witness: after a downgrade the non-search attempt was rejected with
\* a 403 and the chain failed with that error
C13_Witness ==
    /\ pc[1] = "failed"
    /\ NumCalls(log[1], TRUE) = 1
    /\ lastReply[1].threw
    /\ error[1] = "403 PERMISSION_DENIED"

\* oracle calls of the chain that have not settled
Outstanding(c) ==
    Cardinality(Positions(log[c], "call")) - Cardinality(Positions(log[c], "reply"))

\* a step of chain c that issues an oracle call which is not the chain's first
IssuesLaterCall(c) ==
    /\ log[c] # << >>
    /\ Len(log'[c]) > Len(log[c])
    /\ log'[c][Len(log'[c])].type = "call"

\* the call is issued by the timer of a backoff that followed a failed attempt
IssuedAfterBackoff(c) ==
    /\ pc[c] = "delaying"
    /\ Outstanding(c) = 0
    /\ log[c][Len(log[c])].type = "delay"
    /\ log[c][Len(log[c]) - 1].type = "reply" /\ log[c][Len(log[c]) - 1].outcome # "ok"
    /\ log'[c] = Append(log[c], log'[c][Len(log'[c])])

\* the call is issued by the failure of the search-enabled attempt
IssuedByDowngrade(c) ==
    /\ pc[c] = "awaitOracle"
    /\ Len(log'[c]) = Len(log[c]) + 2
    /\ log'[c][Len(log[c]) + 1].type = "reply"
    /\ log'[c][Len(log[c]) + 1].outcome # "ok"
    /\ log'[c][Len(log[c]) + 1].useSearch

\* C16: a chain has at most one oracle call outstanding, and exactly one
\* while it awaits the oracle; a later call is issued only by the failure of
\* the previous attempt (the downgrade) or, after such a failure, by the
\* timer of the backoff.
C16_OneOutstandingCall ==
    /\ [](\A c \in Chains :
            /\ Outstanding(c) \in {0, 1}
            /\ Outstanding(c) = 1 <=> pc[c] = "awaitOracle"
            /\ Len(requests[c]) = Cardinality(Positions(log[c], "call")))
    /\ [][\A c \in Chains :
            IssuesLaterCall(c) => (IssuedAfterBackoff(c) \/ IssuedByDowngrade(c))]_vars

\* C16 witness: the retry after a backoff is outstanding, the second call of its chain
C16_Witness ==
    /\ pc[1] = "awaitOracle"
    /\ Len(log[1]) = 4
    /\ log[1][3].type = "delay"
    /\ Outstanding(1) = 1

\* the call events of a chain, oldest first
CallsOf(c) == SelectSeq(log[c], IsCall)

\* C19: every request asks for JSON output with the response schema, and
\* carries the googleSearch tool exactly when its attempt has search enabled;
\* the request of a downgrade carries no tool.
C19_SearchToolIffSearchEnabled ==
    \A c \in Chains :
        /\ Len(requests[c]) = Len(CallsOf(c))
        /\ \A i \in 1..Len(requests[c]) :
              /\ requests[c][i].config.responseMimeType = "application/json"
              /\ requests[c][i].config.responseSchema.required = SchemaKeys
              /\ requests[c][i].config.tools =
                    IF CallsOf(c)[i].useSearch THEN {"googleSearch"} ELSE {}
        /\ \A i \in FailedReplies(log[c]) :
              log[c][i].useSearch => requests[c][Len(requests[c])].config.tools = {}

\* C19 witness: the request of a downgrade is out, after a request with the tool
C19_Witness ==
    /\ Len(requests[1]) = 2
    /\ requests[1][1].config.tools = {"googleSearch"}
    /\ requests[1][2].config.tools = {}

\* C20: the prompt of a request carries the fallback notice that asks for
\* the prediction label exactly when its attempt has search disabled: the
\* first request of a search-enabled chain is without it, the request of
\* the downgrade is with it.
C20_PredictionNoticeIffNoSearch ==
    \A c \in Chains :
        /\ \A i \in 1..Len(requests[c]) :
              i <= Len(CallsOf(c)) =>
                  (requests[c][i].contents.predictionNotice <=> ~CallsOf(c)[i].useSearch)
        /\ (Len(requests[c]) >= 2 /\ log[c][1].useSearch) =>
              /\ ~requests[c][1].contents.predictionNotice
              /\ requests[c][2].contents.predictionNotice

\* C20 witness: a search-enabled chain has sent its downgrade request
C20_Witness ==
    /\ Len(requests[1]) = 2
    /\ log[1][1].useSearch
    /\ requests[1][2].contents.predictionNotice

----------------------------------------------------------------------------
(* Termination *)

\* the chain was invoked and has neither returned nor thrown
Running(c) == pc[c] \in {"awaitOracle", "delaying"}

Ended(c) == pc[c] \in {"done", "failed"}

\* C18: a chain invoked with budget N makes at most one search-enabled
\* attempt, at most N + 1 non-search attempts and at most N backoffs, and,
\* every oracle call settling and every timer firing, it ends in success or
\* failure.
C18_BoundedRetryPolicy ==
    /\ [](\A c \in Chains : Len(log[c]) > 0 =>
            LET N == log[c][1].retries
            IN  /\ NumCalls(log[c], TRUE) <= 1
                /\ NumCalls(log[c], FALSE) <= N + 1
                /\ NumDelays(log[c]) <= N)
    /\ (Running(1) ~> Ended(1))

\* C18 witness: a non-search chain with the largest budget used all of it and failed
C18_Witness ==
    /\ pc[1] = "failed"
    /\ log[1][1].retries = MaxRetries
    /\ NumCalls(log[1], FALSE) = MaxRetries + 1
    /\ NumDelays(log[1]) = MaxRetries

----------------------------------------------------------------------------
(* Independence of concurrent chains *)

IsReply(e) == e.type = "reply"

\* the outcomes of the attempts of a chain, oldest first
OutcomesOf(c) ==
    LET rs == SelectSeq(log[c], IsReply) IN [i \in 1..Len(rs) |-> rs[i].outcome]

RECURSIVE AloneLog(_, _, _)
\* the log of a chain that runs alone with a credential, from a call with
\* (s, r) on, when its attempts end with the outcomes outs one after the other
AloneLog(s, r, outs) ==
    LET call == << Event("call", s, r, "-") >>
    IN  IF outs = << >> THEN call
        ELSE LET pre == Append(call, Event("reply", s, r, Head(outs)))
             IN  IF Head(outs) = "ok" THEN Append(pre, Event("return", s, r, "-"))
                 ELSE IF s THEN pre \o AloneLog(FALSE, 0, Tail(outs))
                 ELSE IF r > 0
                 THEN Append(pre, Event("delay", s, r, "-")) \o AloneLog(FALSE, r - 1, Tail(outs))
                 ELSE Append(pre, Event("throw", s, r, "-"))

\* everything a chain owns
ChainState(c) ==
    <<pc[c], coords[c], cityName[c], retries[c], useSearch[c], lastReply[c],
      lastNow[c], result[c], error[c], log[c], requests[c]>>

\* C17: a step of one chain changes nothing of another chain and never the
\* credential, and in every interleaving the events of a chain (modes,
\* budgets, backoffs, end) are those of the chain running alone on its own
\* inputs and its own replies; its error or its realtime flag follow from
\* its own last reply.
C17_ChainsAreIndependent ==
    /\ [][/\ apiKey' = apiKey
          /\ \A c, d \in Chains :
                (c # d /\ ChainState(c)' # ChainState(c)) => ChainState(d)' = ChainState(d)]_vars
    /\ [](\A c \in Chains :
            /\ (Len(log[c]) > 0 /\ log[c][1].type = "call") =>
                  AloneLog(log[c][1].useSearch, log[c][1].retries, OutcomesOf(c)) =
                      IF pc[c] = "delaying"
                      THEN Append(log[c], Event("call", FALSE, retries[c] - 1, "-"))
                      ELSE log[c]
            /\ (pc[c] = "failed" /\ lastReply[c].threw) => error[c] = lastReply[c].error
            /\ pc[c] = "done" =>
                  result[c]["isRealtime"] = (ReturningSearch(c) /\ NumChunks(lastReply[c]) > 0))

\* C17 witness: chain 1 waits in its backoff while chain 2, after its
\* downgrade, awaits the oracle
C17_Witness ==
    /\ pc[1] = "delaying"
    /\ pc[2] = "awaitOracle"
    /\ NumCalls(log[2], TRUE) = 1
    /\ NumCalls(log[2], FALSE) = 1

\* sub occurs in str from position i on
HasAt(str, sub, i) ==
    /\ i + Len(sub) - 1 <= Len(str)
    /\ \A k \in 1..Len(sub) : str[i + k - 1] = sub[k]

\* str contains sub
Contains(str, sub) == \E i \in 1..(Len(str) + 1) : HasAt(str, sub, i)

\* the reply text of the probe contains "OK"
ProbeHeardOK ==
    /\ ~probeReply.threw
    /\ probeReply.text.defined
    /\ Contains(probeReply.text.chars, <<"O", "K">>)

\* C12: testApiConnection never raises; with the credential missing it
\* resolves to false without an oracle request; otherwise it makes one
\* request and resolves to true exactly when the call succeeded with a
\* reply text containing "OK" (false on a rejected call, a reply without
\* text, or a text lacking "OK").
C12_ProbeNeverRaises ==
    /\ probePc # "raised"
    /\ probePc = "done" =>
          IF apiKey \in {Undefined, ""}
          THEN probeResult = FALSE /\ probeRequests = << >>
          ELSE Len(probeRequests) = 1 /\ probeResult = ProbeHeardOK

\* C12 witness: the probe resolved to true on a text that has "OK" after
\* another character
C12_Witness ==
    /\ probePc = "done"
    /\ probeResult = TRUE
    /\ probeReply.text.chars = <<"o", "O", "K">>

\* the chains whose request starts in this step, and those whose request completes
Started == awaiting' \ awaiting
Completed == awaiting \ awaiting'

\* the class the fixed priority assigns to a message
ClassByPriority(msg) ==
    IF Contains(msg, KeyMissingChars) THEN "CredentialMissing"
    ELSE IF Contains(msg, <<"4", "2", "9">>) THEN "QuotaExceeded"
    ELSE IF Contains(msg, <<"4", "0", "3">>) THEN "AuthRejected"
    ELSE "Unclassified"

\* an error state follows the fixed priority for the message caught
FollowsPriority(e) ==
    /\ e.class = ClassByPriority(ErrorMsg(caught))
    /\ e.class = "Unclassified" => (e.hasDetail /\ e.detail = ErrorMsg(caught))

\* the catch block with the detailed messages classifies by the fixed priority
DetailedCatchFollowsPriority == [][Completed # {} => FollowsPriority(appError)']_vars

\* C14: at the presentation boundary a failed request is classified by
\* substring of the error message with the priority API_KEY_MISSING, then
\* "429", then "403", and any other failure is Unclassified with the raw
\* message as its detail; this holds of every catch block of getWeatherData.
C14_ClassifiedByPriority ==
    [][Completed # {} => (FollowsPriority(appError) /\ FollowsPriority(appErrorBasic))']_vars

\* C15: a failure whose message contains "404" (and none of the markers of
\* higher priority) is surfaced as the class ResourceNotFound, not as
\* Unclassified.
C15_NotFoundIsItsOwnClass ==
    [][Completed # {} =>
         ((/\ Contains(ErrorMsg(caught), <<"4", "0", "4">>)
           /\ ClassByPriority(ErrorMsg(caught)) = "Unclassified")
              => (appError.class = "ResourceNotFound" /\ appErrorBasic.class = "ResourceNotFound"))']_vars

----------------------------------------------------------------------------
(* Further properties of the chain and of the probe *)

\* C21: every request of a chain embeds exactly one location form: the city
\* name when the chain was invoked with a non-empty city name, the
\* coordinate pair otherwise, never both; the downgrade request and every
\* retry carry the description of the first request.
C21_OneLocationForm ==
    \A i \in 1..Len(requests[1]) :
        LET d == requests[1][i].contents.locationDesc IN
        /\ Cardinality(d.city) + Cardinality(d.coords) = 1
        /\ IF cityName[1] \in {Undefined, ""}
           THEN d.coords = {coords[1]} /\ d.label = "coords"
           ELSE d.city = {cityName[1]} /\ d.label = "city"
        /\ d = requests[1][1].contents.locationDesc

\* C21 witness: a chain invoked with a city name has sent three requests
C21_Witness ==
    /\ Len(requests[1]) = 3
    /\ cityName[1] = "Taipei"
    /\ requests[1][3].contents.locationDesc.city = {"Taipei"}

\* C22: an invocation of testApiConnection makes at most one oracle call,
\* without search tool and without config; whatever the reply, it takes no
\* step of the weather-fetch path (no call, downgrade, delay or retry of a
\* chain) and takes no step after it has resolved.
C22_ProbeIsIndependent ==
    /\ [](/\ Len(probeRequests) <= 1
          /\ \A i \in 1..Len(probeRequests) :
                probeRequests[i].tools = {} /\ ~probeRequests[i].hasConfig
          /\ \A c \in Chains : log[c] = << >> /\ requests[c] = << >>)
    /\ [][/\ probePc = "done" => probeRequests' = probeRequests
          /\ probeRequests' # probeRequests => probePc = "idle"]_vars

\* C22 witness: the probe resolved after its one oracle call was rejected
C22_Witness ==
    /\ probePc = "done"
    /\ probeReply.threw
    /\ Len(probeRequests) = 1

\* C23: a successful attempt is the last event of its chain but for the
\* return: no call and no delay follows it; the snapshot returned is built
\* from the reply and the search mode of that attempt.
C23_FirstSuccessEndsChain ==
    /\ \A i \in Positions(log[1], "reply") :
          log[1][i].outcome = "ok" =>
              /\ Len(log[1]) = i + 1
              /\ log[1][i + 1].type = "return"
              /\ log[1][i + 1].useSearch = log[1][i].useSearch
              /\ pc[1] = "done"
    /\ pc[1] = "done" =>
          /\ log[1][Len(log[1]) - 1].type = "reply"
          /\ log[1][Len(log[1]) - 1].outcome = "ok"
          /\ OutcomeOf(lastReply[1]) = "ok"
          /\ \A k \in (DOMAIN ReturnedDoc(1)) \ OwnKeys : result[1][k] = ReturnedDoc(1)[k]
          /\ Len(result[1]["sources"]) = NumChunks(lastReply[1])
          /\ result[1]["isRealtime"] =
                (log[1][Len(log[1]) - 1].useSearch /\ NumChunks(lastReply[1]) > 0)

\* C23 witness: a non-search chain returned on its third attempt, after two
\* failed attempts, on a reply with a grounding chunk
C23_Witness ==
    /\ pc[1] = "done"
    /\ Cardinality(FailedReplies(log[1])) = 2
    /\ NumChunks(lastReply[1]) > 0
    /\ ~result[1]["isRealtime"]

\* the positions of the calls of a log, in order
CallPositions(events) == Positions(events, "call")

\* C24: along a chain the budget of a call is never above the budget of an
\* earlier call and never negative, and a delay is preceded immediately by
\* the failed reply of a non-search attempt whose budget was above 0.
C24_BudgetNeverGrows ==
    /\ \A i, j \in CallPositions(log[1]) :
          i < j => log[1][j].retries <= log[1][i].retries
    /\ \A i \in 1..Len(log[1]) : log[1][i].retries >= 0
    /\ retries[1] >= 0
    /\ \A i \in Positions(log[1], "delay") :
          /\ i > 1
          /\ log[1][i - 1].type = "reply"
          /\ log[1][i - 1].outcome # "ok"
          /\ ~log[1][i - 1].useSearch
          /\ log[1][i - 1].retries > 0

\* C24 witness: a chain started with budget 2 has made its third call with budget 0
C24_Witness ==
    /\ Cardinality(CallPositions(log[1])) = 3
    /\ log[1][1].retries = 2
    /\ retries[1] = 0
    /\ NumDelays(log[1]) = 2

----------------------------------------------------------------------------
(* Properties of the App component *)

\* no error is set, in either catch block's error state
ErrorIsNull == appError = NoAppError /\ appErrorBasic = NoAppError

\* an error is set, in either catch block's error state
ErrorIsSet == appError # NoAppError /\ appErrorBasic # NoAppError

\* C25: a step that starts a weather request sets loading and clears the
\* error; the step that completes it (the chain has returned or thrown)
\* clears loading; on success weatherData is the snapshot returned and the
\* error is null, on failure the error is set.  While a request is in
\* flight and every oracle call settles, loading is eventually false.
C25_RequestLifecycle ==
    /\ [][/\ Started # {} => (loading' /\ ErrorIsNull')
          /\ \A c \in Completed :
                /\ pc[c] \in {"done", "failed"}
                /\ ~loading'
                /\ pc[c] = "done" => (weatherData' = result[c] /\ ErrorIsNull')
                /\ pc[c] = "failed" => ErrorIsSet']_vars
    /\ (awaiting # {}) ~> ~loading

\* C25 witness: a request has completed with a snapshot and no error
C25_Witness ==
    /\ mounted
    /\ awaiting = {}
    /\ ~loading
    /\ weatherData # NoWeatherData
    /\ ErrorIsNull

\* C26: at most one weather request or geolocation lookup is in flight, no
\* chain runs outside a request, and loading is true while one is in
\* flight; a request or lookup starts only when loading is false (the
\* form or the retry button is there), on mount, or as the continuation of
\* the pending lookup.
C26_OneRequestInFlight ==
    /\ [](/\ Cardinality(awaiting) + geoPending <= 1
          /\ (awaiting # {} \/ geoPending > 0) => loading
          /\ \A c \in Chains : c \notin awaiting => pc[c] = "idle")
    /\ [][/\ Started # {} => (~loading \/ geoPending' < geoPending)
          /\ geoPending' > geoPending => (~loading \/ ~mounted)]_vars

\* C26 witness: the request of a search has made its downgrade call, with
\* loading true
C26_Witness ==
    /\ awaiting = {1}
    /\ loading
    /\ cityName[1] = "Taipei"
    /\ NumCalls(log[1], FALSE) = 1

\* C27: weatherData changes only in the step that completes a successful
\* request, to the snapshot returned; the step that completes a failed
\* request leaves it as it was, next to the error.
C27_FailureKeepsData ==
    [][/\ weatherData' # weatherData =>
             \E c \in Completed : pc[c] = "done" /\ weatherData' = result[c]
       /\ \A c \in Completed : pc[c] = "failed" => weatherData' = weatherData]_vars

\* C27 witness: a request failed after one succeeded; the snapshot and the
\* error are both rendered
C27_Witness ==
    /\ DataRendered(loading, weatherData)
    /\ RetryRendered(loading, appErrorBasic)
    /\ appErrorBasic.class = "Unclassified"
    /\ caught # << >>

\* C28: when geolocation is missing the mount sets an error and loading =
\* false, starts no lookup and no request; when the lookup fails the error
\* callback does the same; when it succeeds exactly one request is
\* started, with the position obtained and no city name.
C28_GeolocationOutcomes ==
    [][/\ (~mounted /\ mounted' /\ ~geoSupported) =>
             /\ ErrorIsSet' /\ ~loading'
             /\ geoPending' = 0 /\ awaiting' = awaiting
             /\ log' = log /\ requests' = requests
       /\ (geoPending' < geoPending /\ geoResult' = "error") =>
             /\ ErrorIsSet' /\ ~loading'
             /\ awaiting' = awaiting
             /\ log' = log /\ requests' = requests
       /\ (geoPending' < geoPending /\ geoResult' = "success") =>
             /\ Cardinality(Started) = 1
             /\ Completed = {}
             /\ \A c \in Started :
                   /\ coords'[c] \in GeoPositions
                   /\ location' = {coords'[c]}
                   /\ cityName'[c] = Undefined
                   /\ Len(log'[c]) = 1
                   /\ Len(requests'[c]) <= 1
                   /\ \A i \in 1..Len(requests'[c]) :
                         /\ requests'[c][i].contents.locationDesc.coords = {coords'[c]}
                         /\ requests'[c][i].contents.locationDesc.city = {}
             /\ \A c \in Chains \ Started : log'[c] = log[c]]_vars

\* C28 witness: the lookup of a retry failed, after an earlier request had succeeded
C28_Witness ==
    /\ geoResult = "error"
    /\ appErrorBasic.class = "GeoDenied"
    /\ ~loading
    /\ weatherData # NoWeatherData

\* the query has no character but blanks
IsBlank(q) == q.core = ""

\* C29: the step of a form submission with an empty or blank query changes
\* neither loading, error, weatherData nor any chain; with another query it
\* starts exactly one request, whose city name is the text without the
\* blanks at its ends, and whose coordinates are (0, 0).
C29_BlankQueryStartsNothing ==
    [][submitTick' # submitTick =>
         IF IsBlank(searchQuery)
         THEN /\ UNCHANGED <<loading, appError, appErrorBasic, weatherData, awaiting>>
              /\ UNCHANGED chainVars
         ELSE /\ Cardinality(Started) = 1
              /\ Completed = {}
              /\ loading'
              /\ \A c \in Started :
                    /\ cityName'[c] = searchQuery.core
                    /\ coords'[c] = [lat |-> 0, lng |-> 0]
                    /\ Len(log'[c]) = 1
                    /\ \A i \in 1..Len(requests'[c]) :
                          /\ requests'[c][i].contents.locationDesc.city = {searchQuery.core}
                          /\ requests'[c][i].contents.locationDesc.coords = {}]_vars

\* C29 witness: a query with blanks on both sides was submitted and its
\* request is in flight
C29_Witness ==
    /\ awaiting = {1}
    /\ searchQuery.lead > 0
    /\ searchQuery.trail > 0
    /\ cityName[1] = "Taipei"
    /\ Len(requests[1]) = 1

====
